---- MODULE Spec2Model ----
(***************************************************************************)
(* Model of the file_env_const proc-macro crate (src/lib.rs).              *)
(*                                                                         *)
(* The crate exports two function-like macros, file_env! and env_file!,    *)
(* which resolve a string literal at expansion time from a file, an        *)
(* environment variable and an optional literal default.                   *)
(*                                                                         *)
(* A string is a tuple of one-character strings.  The filesystem and the   *)
(* environment are partial maps from names to contents and are read-only.  *)
(* Each expansion is one action; what it does in order (lookups in the     *)
(* ambient state, eprintln! lines, the return or the panic) is recorded in *)
(* `trace`.  `prev` keeps the previous expansion so that two expansions in *)
(* the same ambient state can be compared.  The first expansion is of any  *)
(* call site; a later one is of a call site related to the one before it   *)
(* (the same arguments, the first two swapped, or cut to three), under     *)
(* either macro.                                                           *)
(***************************************************************************)
EXTENDS Integers, Sequences, FiniteSets, TLC

VARIABLES fs, env, directive, input, output, panicked, trace, prev

vars == <<fs, env, directive, input, output, panicked, trace, prev>>

(***************************************************************************)
(* Bounds and the small universes the inputs are drawn from.               *)
(***************************************************************************)
MaxArgs == 4

\* Values of the string literals written at the call site.
LitValues == { <<"k">>, <<"q">>, <<" ", "d", "\n">> }

\* The names under which a file or an environment variable may exist; every
\* other literal value names nothing.
Names == { <<"k">>, <<"q">> }

\* Contents a file or an environment variable may hold.
Contents == { <<"h", "\n">>, <<"b">> }

(***************************************************************************)
(* syn::LitStr: a string literal token, with its value and its span (here  *)
(* the position of the argument the span belongs to).                      *)
(***************************************************************************)
LitStrNew(value, span) == [value |-> value, span |-> span]

LitStrValue(x) == x.value

\* The comma-separated literals of a macro invocation, in call-site order.
CallSite(values) == [i \in 1..Len(values) |-> LitStrNew(values[i], i)]

\* Every argument list of at most MaxArgs literals.
Inputs == { CallSite(values) : values \in UNION { [1..n -> LitValues] : n \in 0..MaxArgs } }

PartialMaps(D, R) == UNION { [S -> R] : S \in SUBSET D }

(***************************************************************************)
(* enum Kind { Data(LitStr), Name(String) }; a panic raised inside a       *)
(* helper is carried as a third tag so that the caller unwinds.            *)
(***************************************************************************)
Data(lit) == [tag |-> "Data", data |-> lit]

Name(name) == [tag |-> "Name", name |-> name]

Panic(msg) == [tag |-> "Panic", msg |-> msg]

(***************************************************************************)
(* Events of one expansion, in program order.                              *)
(***************************************************************************)
LookupEv(kind, name) == [ev |-> "lookup", kind |-> kind, text |-> name, trying |-> ""]

EprintlnEv(kind, name, trying) ==
    [ev |-> "eprintln", kind |-> kind, text |-> name, trying |-> trying]

ReturnEv(lit) == [ev |-> "return", kind |-> "", text |-> lit.value, trying |-> ""]

PanicEv == [ev |-> "panic", kind |-> "", text |-> <<>>, trying |-> ""]

\* Iterator::next on the argument iterator: what is left after one call.
next_rest(l) == IF l = <<>> THEN <<>> ELSE Tail(l)

(***************************************************************************)
(* Punctuated::<LitStr, Token![,]>::parse_separated_nonempty + unwrap.     *)
(***************************************************************************)
parse(tokens) ==
    IF tokens = <<>> THEN Panic("called Result::unwrap() on an Err value")
    ELSE [tag |-> "Ok", list |-> tokens]

(***************************************************************************)
(* Faulty variants of the helpers below, used to show that the properties  *)
(* at the end of the module depend on what the helpers do.                 *)
(***************************************************************************)
Whitespace == { " ", "\n" }

RECURSIVE TrimStart(_)
TrimStart(s) == IF s # <<>> /\ Head(s) \in Whitespace THEN TrimStart(Tail(s)) ELSE s

RECURSIVE TrimEnd(_)
TrimEnd(s) ==
    IF s # <<>> /\ s[Len(s)] \in Whitespace THEN TrimEnd(SubSeq(s, 1, Len(s) - 1)) ELSE s

Trim(s) == TrimEnd(TrimStart(s))

\* read_file that trims what it read.
read_file_trimmed(parser_list) ==
    IF parser_list # <<>>
    THEN LET x == Head(parser_list)
             filename == LitStrValue(x)
         IN IF filename \in DOMAIN fs
            THEN Data(LitStrNew(Trim(fs[filename]), x.span))
            ELSE Name(filename)
    ELSE Panic("No filename argument supplied")

\* read_file that reports the literal as written, quotes included.
read_file_quoted_name(parser_list) ==
    IF parser_list # <<>>
    THEN LET x == Head(parser_list)
             filename == LitStrValue(x)
         IN IF filename \in DOMAIN fs
            THEN Data(LitStrNew(fs[filename], x.span))
            ELSE Name(<<"\"">> \o filename \o <<"\"">>)
    ELSE Panic("No filename argument supplied")

\* read_from_env that returns the variable's name where its value belongs.
read_from_env_name_as_data(parser_list) ==
    IF parser_list # <<>>
    THEN LET x == Head(parser_list)
             env_var_name == LitStrValue(x)
         IN IF env_var_name \in DOMAIN env
            THEN Data(LitStrNew(env_var_name, x.span))
            ELSE Name(env_var_name)
    ELSE Panic("No env argument supplied")

\* read_from_env that finds no variable set.
read_from_env_unset(parser_list) ==
    IF parser_list # <<>>
    THEN Name(LitStrValue(Head(parser_list)))
    ELSE Panic("No env argument supplied")

\* read_from_env that lets a missing argument count as a failed lookup.
read_from_env_missing_ok(parser_list) ==
    IF parser_list # <<>>
    THEN LET x == Head(parser_list)
             env_var_name == LitStrValue(x)
         IN IF env_var_name \in DOMAIN env
            THEN Data(LitStrNew(env[env_var_name], x.span))
            ELSE Name(env_var_name)
    ELSE Name(<<>>)

(***************************************************************************)
(* fn read_file                                                            *)
(***************************************************************************)
read_file(parser_list) ==
    IF parser_list # <<>>
    THEN LET x == Head(parser_list)
             filename == LitStrValue(x)
         IN IF filename \in DOMAIN fs
            THEN Data(LitStrNew(fs[filename], x.span))
            ELSE Name(filename)
    ELSE Panic("No filename argument supplied")

\* std::fs::read_to_string is called only when an argument was there.
read_file_lookups(parser_list) ==
    IF parser_list # <<>>
    THEN << LookupEv("file", LitStrValue(Head(parser_list))) >>
    ELSE <<>>

(***************************************************************************)
(* fn read_from_env                                                        *)
(***************************************************************************)
read_from_env(parser_list) ==
    IF parser_list # <<>>
    THEN LET x == Head(parser_list)
             env_var_name == LitStrValue(x)
         IN IF env_var_name \in DOMAIN env
            THEN Data(LitStrNew(env[env_var_name], x.span))
            ELSE Name(env_var_name)
    ELSE Panic("No env argument supplied")

\* std::env::var is called only when an argument was there.
read_from_env_lookups(parser_list) ==
    IF parser_list # <<>>
    THEN << LookupEv("env", LitStrValue(Head(parser_list))) >>
    ELSE <<>>

(***************************************************************************)
(* The end of an expansion: the state it leaves behind.                    *)
(***************************************************************************)
ThisRun == [directive |-> directive, input |-> input, output |-> output,
            panicked |-> panicked, trace |-> trace]

Finish(name, tokens, out, pan, tr) ==
    /\ directive' = name
    /\ input' = tokens
    /\ output' = out
    /\ panicked' = pan
    /\ trace' = tr
    /\ prev' = ThisRun
    /\ UNCHANGED <<fs, env>>

Returns(name, tokens, lit, tr) ==
    Finish(name, tokens, <<lit>>, <<>>, tr \o <<ReturnEv(lit)>>)

Panics(name, tokens, msg, tr) ==
    Finish(name, tokens, <<>>, <<msg>>, tr \o <<PanicEv>>)

\* A third stage that trims the default.
file_env_default_trimmed(l) ==
    IF l # <<>>
    THEN Data(LitStrNew(Trim(Head(l).value), Head(l).span))
    ELSE Panic("No filename argument supplied, try file_env!(\"filename\", \"ENV_NAME\", \"default_value\")")

\* A third stage that takes the last argument left, not the next one.
file_env_default_last(l) ==
    IF l # <<>>
    THEN Data(l[Len(l)])
    ELSE Panic("No filename argument supplied, try file_env!(\"filename\", \"ENV_NAME\", \"default_value\")")

\* A third stage that yields an empty literal where there is no default.
env_file_default_empty(l) ==
    IF l # <<>>
    THEN Data(Head(l))
    ELSE Data(LitStrNew(<<>>, 1))

(***************************************************************************)
(* The third stage of each macro: `if let Some(data) = l.next()`.          *)
(***************************************************************************)
file_env_default(l) ==
    IF l # <<>>
    THEN Data(Head(l))
    ELSE Panic("No filename argument supplied, try file_env!(\"filename\", \"ENV_NAME\", \"default_value\")")

env_file_default(l) ==
    IF l # <<>>
    THEN Data(Head(l))
    ELSE Panic("No filename argument supplied, try file_env!(\"filename\", \"ENV_NAME\", \"default_value\")")

(***************************************************************************)
(* #[proc_macro] pub fn file_env                                           *)
(***************************************************************************)
file_env(tokens) ==
    LET parsed == parse(tokens)
    IN IF parsed.tag = "Panic" THEN Panics("file_env", tokens, parsed.msg, <<>>)
       ELSE
       LET l0 == parsed.list
           k1 == read_file(l0)
           t1 == read_file_lookups(l0)
           l1 == next_rest(l0)
       IN IF k1.tag = "Panic" THEN Panics("file_env", tokens, k1.msg, t1)
          ELSE IF k1.tag = "Data" THEN Returns("file_env", tokens, k1.data, t1)
          ELSE
          LET e1 == t1 \o << EprintlnEv("file", k1.name, "environment variable") >>
              k2 == read_from_env(l1)
              t2 == e1 \o read_from_env_lookups(l1)
              l2 == next_rest(l1)
          IN IF k2.tag = "Panic" THEN Panics("file_env", tokens, k2.msg, t2)
             ELSE IF k2.tag = "Data" THEN Returns("file_env", tokens, k2.data, t2)
             ELSE
             LET e2 == t2 \o << EprintlnEv("env", k2.name, "default") >>
                 k3 == file_env_default(l2)
             IN IF k3.tag = "Data" THEN Returns("file_env", tokens, k3.data, e2)
                ELSE Panics("file_env", tokens, k3.msg, e2)

(***************************************************************************)
(* #[proc_macro] pub fn env_file                                           *)
(***************************************************************************)
env_file(tokens) ==
    LET parsed == parse(tokens)
    IN IF parsed.tag = "Panic" THEN Panics("env_file", tokens, parsed.msg, <<>>)
       ELSE
       LET l0 == parsed.list
           k1 == read_from_env(l0)
           t1 == read_from_env_lookups(l0)
           l1 == next_rest(l0)
       IN IF k1.tag = "Panic" THEN Panics("env_file", tokens, k1.msg, t1)
          ELSE IF k1.tag = "Data" THEN Returns("env_file", tokens, k1.data, t1)
          ELSE
          LET e1 == t1 \o << EprintlnEv("env", k1.name, "default") >>
              k2 == read_file(l1)
              t2 == e1 \o read_file_lookups(l1)
              l2 == next_rest(l1)
          IN IF k2.tag = "Panic" THEN Panics("env_file", tokens, k2.msg, t2)
             ELSE IF k2.tag = "Data" THEN Returns("env_file", tokens, k2.data, t2)
             ELSE
             LET e2 == t2 \o << EprintlnEv("file", k2.name, "environment variable") >>
                 k3 == env_file_default(l2)
             IN IF k3.tag = "Data" THEN Returns("env_file", tokens, k3.data, e2)
                ELSE Panics("env_file", tokens, k3.msg, e2)

(***************************************************************************)
(* The specification: an ambient state, then any number of expansions.     *)
(***************************************************************************)
NoRun == [directive |-> "none", input |-> <<>>, output |-> <<>>,
          panicked |-> <<>>, trace |-> <<>>]

Init ==
    /\ fs \in PartialMaps(Names, Contents)
    /\ env \in PartialMaps(Names, Contents)
    /\ directive = "none"
    /\ input = <<>>
    /\ output = <<>>
    /\ panicked = <<>>
    /\ trace = <<>>
    /\ prev = NoRun

\* The first two arguments in the other order.
Swapped(tokens) ==
    IF Len(tokens) < 2 THEN tokens
    ELSE CallSite([i \in 1..Len(tokens) |->
                     IF i = 1 THEN tokens[2].value
                     ELSE IF i = 2 THEN tokens[1].value
                     ELSE tokens[i].value])

\* The first three arguments only.
Truncated(tokens) == IF Len(tokens) > 3 THEN SubSeq(tokens, 1, 3) ELSE tokens

CallSites ==
    IF directive = "none" THEN Inputs
    ELSE { input, Swapped(input), Truncated(input) }

ExpandFileEnv == \E tokens \in CallSites : file_env(tokens)

ExpandEnvFile == \E tokens \in CallSites : env_file(tokens)

Next == ExpandFileEnv \/ ExpandEnvFile

Spec == Init /\ [][Next]_vars

(***************************************************************************)
(* Vocabulary of the properties.                                           *)
(***************************************************************************)
Ran == directive # "none" /\ input # <<>>

Primary(d) == IF d = "file_env" THEN "file" ELSE "env"

Secondary(d) == IF d = "file_env" THEN "env" ELSE "file"

\* How a diagnostic calls a source kind when it announces the next stage.
StageName(kind) == IF kind = "file" THEN "file" ELSE "environment variable"

Resolves(kind, name) ==
    IF kind = "file" THEN name \in DOMAIN fs ELSE name \in DOMAIN env

Content(kind, name) == IF kind = "file" THEN fs[name] ELSE env[name]

Arg(k) == input[k].value

PrimaryResolves == Resolves(Primary(directive), Arg(1))

SecondaryResolves == Len(input) >= 2 /\ Resolves(Secondary(directive), Arg(2))

IsLookup(e) == e.ev = "lookup"

IsEprintln(e) == e.ev = "eprintln"

Lookups == SelectSeq(trace, IsLookup)

Diags == SelectSeq(trace, IsEprintln)

Values(tokens) == [i \in 1..Len(tokens) |-> tokens[i].value]

UsageMessage(d) ==
    IF d = "file_env"
    THEN "No filename argument supplied, try file_env!(\"filename\", \"ENV_NAME\", \"default_value\")"
    ELSE "No filename argument supplied, try env_file!(\"filename\", \"ENV_NAME\", \"default_value\")"

MissingArgumentMessage(kind) ==
    IF kind = "file" THEN "No filename argument supplied" ELSE "No env argument supplied"

(***************************************************************************)
(* C1: with one, two or three arguments, when the primary lookup on        *)
(* argument 1 succeeds, either macro returns exactly the primary source's  *)
(* content (trailing newline included) and the expansion consists of that  *)
(* one lookup and the return: no lookup of argument 2, no diagnostic.      *)
(***************************************************************************)
C1_PrimaryWins ==
    (Ran /\ Len(input) \in 1..3 /\ PrimaryResolves) =>
        LET c == Content(Primary(directive), Arg(1))
        IN /\ Len(output) = 1
           /\ output[1].value = c
           /\ panicked = <<>>
           /\ trace = << LookupEv(Primary(directive), Arg(1)),
                         ReturnEv(LitStrNew(c, 1)) >>

C1_Witness ==
    /\ Ran /\ Len(input) = 3 /\ PrimaryResolves /\ SecondaryResolves
    /\ Content(Primary(directive), Arg(1)) = <<"h", "\n">>
    /\ Content(Secondary(directive), Arg(2)) = <<"b">>
    /\ Len(output) = 1 /\ output[1].value = <<"h", "\n">>

(***************************************************************************)
(* C2: with two or three arguments, when the primary lookup fails and the  *)
(* secondary lookup on argument 2 succeeds, either macro returns exactly   *)
(* the secondary source's content, taken from argument 2's stage; the      *)
(* default is not used.                                                    *)
(***************************************************************************)
C2_SecondaryWins ==
    (Ran /\ Len(input) \in 2..3 /\ ~PrimaryResolves /\ SecondaryResolves) =>
        /\ output = << LitStrNew(Content(Secondary(directive), Arg(2)), 2) >>
        /\ panicked = <<>>

C2_Witness ==
    /\ Ran /\ Len(input) = 3 /\ ~PrimaryResolves /\ SecondaryResolves
    /\ Arg(3) # Content(Secondary(directive), Arg(2))
    /\ Len(output) = 1 /\ output[1].value = Content(Secondary(directive), Arg(2))

(***************************************************************************)
(* C3: when both lookups fail and a third argument is there, either macro  *)
(* returns the third argument itself, untouched, without aborting, and no  *)
(* lookup is made on it.                                                   *)
(***************************************************************************)
C3_DefaultVerbatim ==
    (Ran /\ Len(input) >= 3 /\ ~PrimaryResolves /\ ~SecondaryResolves) =>
        /\ output = << input[3] >>
        /\ panicked = <<>>
        /\ Lookups = << LookupEv(Primary(directive), Arg(1)),
                        LookupEv(Secondary(directive), Arg(2)) >>

C3_Witness ==
    /\ Ran /\ Len(input) = 3 /\ ~PrimaryResolves /\ ~SecondaryResolves
    /\ Arg(3) = <<" ", "d", "\n">>
    /\ output = << input[3] >>

(***************************************************************************)
(* C4: when no source resolves and there is no third argument, either      *)
(* macro panics and returns nothing at all; with three arguments or more   *)
(* it never panics and returns exactly one literal.                        *)
(***************************************************************************)
C4_AbortOnlyWithoutDefault ==
    /\ (Ran /\ Len(input) <= 2 /\ ~PrimaryResolves /\ ~SecondaryResolves) =>
           (output = <<>> /\ Len(panicked) = 1)
    /\ (Ran /\ Len(input) >= 3) =>
           (panicked = <<>> /\ Len(output) = 1)

C4_Witness ==
    /\ Ran /\ Len(input) = 2 /\ ~PrimaryResolves /\ ~SecondaryResolves
    /\ output = <<>> /\ Len(panicked) = 1
    /\ Len(Lookups) = 2

(***************************************************************************)
(* C5: file_env(F, E) and env_file(E, F), expanded one after the other in  *)
(* the same ambient state.  When F and E both resolve they return the same *)
(* value if the two contents are equal, and otherwise file_env returns     *)
(* the file's content and env_file the variable's value.  When neither     *)
(* resolves and both are given the default d, both return d.               *)
(***************************************************************************)
Mirrored(a, b) ==
    /\ a.directive = "file_env" /\ b.directive = "env_file"
    /\ Len(a.input) \in 2..3 /\ Len(b.input) = Len(a.input)
    /\ a.input[1].value = b.input[2].value
    /\ a.input[2].value = b.input[1].value
    /\ Len(a.input) = 3 => a.input[3].value = b.input[3].value

SymmetryOf(a, b) ==
    LET F == a.input[1].value
        E == a.input[2].value
    IN /\ (F \in DOMAIN fs /\ E \in DOMAIN env) =>
              /\ Len(a.output) = 1 /\ Len(b.output) = 1
              /\ IF fs[F] = env[E]
                 THEN a.output[1].value = b.output[1].value
                 ELSE a.output[1].value = fs[F] /\ b.output[1].value = env[E]
       /\ (F \notin DOMAIN fs /\ E \notin DOMAIN env /\ Len(a.input) = 3) =>
              /\ Values(a.output) = << a.input[3].value >>
              /\ Values(b.output) = << a.input[3].value >>

C5_DirectiveSymmetry ==
    /\ Mirrored(prev, ThisRun) => SymmetryOf(prev, ThisRun)
    /\ Mirrored(ThisRun, prev) => SymmetryOf(ThisRun, prev)

C5_Witness ==
    /\ Mirrored(prev, ThisRun)
    /\ Arg(1) # Arg(2)
    /\ Arg(2) \in DOMAIN fs /\ Arg(1) \in DOMAIN env
    /\ fs[Arg(2)] # env[Arg(1)]
    /\ Values(prev.output) = << fs[Arg(2)] >>
    /\ Values(output) = << env[Arg(1)] >>

(***************************************************************************)
(* C6: every diagnostic names the source whose lookup just failed, and     *)
(* announces the stage that is attempted next: the first one the secondary *)
(* source of the macro, the second one the default.                        *)
(***************************************************************************)
C6_DiagnosticNamesNextStage ==
    Ran =>
        /\ \A i \in 1..Len(trace) :
               IsEprintln(trace[i]) =>
                   /\ i > 1 /\ IsLookup(trace[i - 1])
                   /\ trace[i].kind = trace[i - 1].kind
                   /\ trace[i].text = trace[i - 1].text
        /\ Len(Diags) >= 1 => Diags[1].trying = StageName(Secondary(directive))
        /\ Len(Diags) >= 2 => Diags[2].trying = "default"

(***************************************************************************)
(* C7: the panic of the third stage (both lookups failed, no default)      *)
(* names the macro that was invoked in its usage example.                  *)
(***************************************************************************)
C7_AbortNamesDirective ==
    (Ran /\ Len(input) = 2 /\ ~PrimaryResolves /\ ~SecondaryResolves) =>
        panicked = << UsageMessage(directive) >>

(***************************************************************************)
(* C8, as claimed: with exactly one argument, a primary success returns    *)
(* the content; a primary failure skips the secondary stage and panics in  *)
(* the third stage with the message that carries the usage example.        *)
(***************************************************************************)
C8_OneArgumentReachesStage3 ==
    (Ran /\ Len(input) = 1) =>
        IF PrimaryResolves
        THEN Values(output) = << Content(Primary(directive), Arg(1)) >> /\ panicked = <<>>
        ELSE /\ Len(Lookups) = 1 /\ Len(Diags) = 1
             /\ output = <<>>
             /\ panicked \in { << UsageMessage("file_env") >>, << UsageMessage("env_file") >> }

(***************************************************************************)
(* C8, amended: with exactly one argument, a primary success returns the   *)
(* content; after a primary failure and its diagnostic, the secondary      *)
(* helper finds no argument and panics there, with its own short message   *)
(* (no usage example), without any secondary lookup or diagnostic.         *)
(***************************************************************************)
C8_OneArgumentPanicsInStage2 ==
    (Ran /\ Len(input) = 1) =>
        IF PrimaryResolves
        THEN Values(output) = << Content(Primary(directive), Arg(1)) >> /\ panicked = <<>>
        ELSE /\ Lookups = << LookupEv(Primary(directive), Arg(1)) >>
             /\ Len(Diags) = 1
             /\ Diags[1].kind = Primary(directive) /\ Diags[1].text = Arg(1)
             /\ trace[Len(trace)] = PanicEv
             /\ output = <<>>
             /\ panicked = << MissingArgumentMessage(Secondary(directive)) >>

C8_Witness ==
    /\ Ran /\ Len(input) = 1 /\ ~PrimaryResolves
    /\ directive = "file_env"
    /\ panicked = << "No env argument supplied" >>
    /\ Len(trace) = 3

(***************************************************************************)
(* C9: with more than three arguments either macro does not panic and     *)
(* stage k uses argument k only (the lookups are on arguments 1 and 2 in   *)
(* that order, the returned literal comes from stage 1, 2 or 3); and its   *)
(* outcome (returned literal, panic, lookups and diagnostics) is the one   *)
(* the same macro has on the first three arguments alone.                  *)
(***************************************************************************)
C9_ExtraArgumentsIgnored ==
    /\ (Ran /\ Len(input) > 3) =>
           /\ panicked = <<>> /\ Len(output) = 1
           /\ Len(Lookups) <= 2
           /\ \A k \in 1..Len(Lookups) : Lookups[k].text = Arg(k)
           /\ output[1].span = IF Len(Lookups) = 2 /\ Len(Diags) = 2 THEN 3 ELSE Len(Lookups)
           /\ output[1].span = 3 => output = << input[3] >>
    /\ (Ran /\ Len(prev.input) > 3 /\ prev.directive = directive
            /\ input = SubSeq(prev.input, 1, 3)) =>
           /\ output = prev.output
           /\ panicked = prev.panicked
           /\ trace = prev.trace

C9_Witness ==
    /\ Ran /\ Len(prev.input) > 3 /\ prev.directive = directive
    /\ input = SubSeq(prev.input, 1, 3)
    /\ prev.input[4].value # Arg(3)
    /\ output = << input[3] >> /\ prev.output = output

(***************************************************************************)
(* C10: an expansion is a run of lookups, each failed one followed at once *)
(* by one diagnostic carrying the failed argument, closed by the return or *)
(* the panic; the primary's diagnostic comes before the secondary's; there *)
(* are 0 diagnostics when stage 1 returns, 1 when stage 2 returns, 2 when  *)
(* the default is returned or the third stage panics; and expanding the    *)
(* same call site again in the same ambient state gives the same result.   *)
(***************************************************************************)
C10_DiagnosticsFollowFallbacks ==
    Ran =>
        /\ \A i \in 1..Len(trace) :
               /\ (i < Len(trace)) = (trace[i].ev \in { "lookup", "eprintln" })
               /\ (i = Len(trace)) = (trace[i].ev \in { "return", "panic" })
               /\ IsLookup(trace[i]) =>
                      (~Resolves(trace[i].kind, trace[i].text)) =
                          (i < Len(trace) /\ IsEprintln(trace[i + 1]))
               /\ IsEprintln(trace[i]) =>
                      /\ i > 1 /\ IsLookup(trace[i - 1])
                      /\ trace[i].kind = trace[i - 1].kind
                      /\ trace[i].text = trace[i - 1].text
        /\ Len(Diags) <= 2
        /\ Len(Diags) >= 1 => Diags[1].kind = Primary(directive) /\ Diags[1].text = Arg(1)
        /\ Len(Diags) = 2 => Diags[2].kind = Secondary(directive) /\ Diags[2].text = Arg(2)
        /\ output # <<>> => Len(Diags) = output[1].span - 1
        /\ (panicked # <<>> /\ Len(input) = 2) => Len(Diags) = 2
        /\ (prev.directive = directive /\ prev.input = input) =>
               (prev.output = output /\ prev.panicked = panicked)

C10_Witness ==
    /\ Ran /\ prev.directive = directive /\ prev.input = input
    /\ Len(input) = 2 /\ Len(Diags) = 2
    /\ panicked # <<>> /\ prev.panicked = panicked

====
